---------------------------- MODULE Spec2Model ----------------------------
(***************************************************************************)
(* A model of repo_to_text.py: the directory walk (iter_files), the        *)
(* per-file decision procedure (process_file and its helpers), the binary  *)
(* sniffer (is_probably_binary) and the driver loop of main.               *)
(*                                                                         *)
(* Strings of the program (file names, extensions, directory names) are    *)
(* tuples of one-character strings, so that startswith, splitext and       *)
(* lower are computed character by character as Python computes them.      *)
(* Byte samples are tuples of integers 0..255.                             *)
(*                                                                         *)
(* Writes to the output stream are taken to succeed: an unwritable output  *)
(* is a top-level error of the program, outside the per-file pipeline.     *)
(***************************************************************************)
EXTENDS Integers, Sequences, FiniteSets, TLC

VARIABLES
    fs,              \* the directory tree os.walk sees: root name, directories, files
    has,             \* module globals _HAS_PYMUPDF / _HAS_PYTHON_DOCX
    args,            \* the argparse namespace (raw after parsing, normalised by main)
    pc,              \* position of main: "start", "loop" (at the for), "body", "done",
                     \* "fail" (root is no directory), "crash" (uncaught exception)
    stack,           \* os.walk: directories still to be visited (ids of fs.dirs, 0 = root)
    pending,         \* iter_files: paths of the current directory not yet yielded
    count_total,     \* main's counter
    count_included,  \* main's counter
    out,             \* the output stream after the header: paths of the chunks written, in order
    summary,         \* the trailer written at the end: <<scanned, included>>, or <<>> before
    yielded,         \* every path iter_files has yielded so far, in order
    handles,         \* handles on input files that are open between two loop iterations
    last,            \* the call of process_file of the current iteration: path, answers, result
    exitcode,        \* main's return value, -1 while running
    sample,          \* is_probably_binary: the argument of the call under test
    verdict          \* is_probably_binary: the value returned, None before the call

vars == <<fs, has, args, pc, stack, pending, count_total, count_included, out,
          summary, yielded, handles, last, exitcode, sample, verdict>>

pipeVars == <<fs, has, args, pc, stack, pending, count_total, count_included, out,
              summary, yielded, handles, last, exitcode>>

----------------------------------------------------------------------------
(* Bounds of the model. *)

\* number of files in the tree of the pipeline specification
MaxFiles == 2
\* number of directories below the root in the tree of the walk specification
MaxDirs == 2
\* longest byte sample drawn from the whole byte alphabet
MaxSampleLen == 2
\* longest byte sample of the form "k suspicious bytes, then clean bytes"
MaxDensityLen == 10

\* Optional[T]: None is the empty tuple, a value x is <<x>>
None == <<>>

Some(x) == <<x>>

----------------------------------------------------------------------------
(* Strings as character tuples. *)

\* str.lower on the letters the model's names use
LowerChar(c) ==
    CASE c = "P" -> "p"
      [] c = "Y" -> "y"
      [] c = "N" -> "n"
      [] c = "G" -> "g"
      [] c = "D" -> "d"
      [] c = "F" -> "f"
      [] c = "E" -> "e"
      [] OTHER -> c

Lower(s) == [i \in 1..Len(s) |-> LowerChar(s[i])]

StartsWithDot(s) == Len(s) > 0 /\ s[1] = "."

\* index of the last "." of s, 0 when there is none
LastDot(s) ==
    LET dots == {i \in 1..Len(s) : s[i] = "."}
    IN  IF dots = {} THEN 0 ELSE CHOOSE i \in dots : \A j \in dots : j <= i

\* os.path.splitext(path)[1] on the last component of the path: the extension
\* starts at the last dot, unless only dots precede it
splitext_ext(name) ==
    LET d == LastDot(name)
    IN  IF d > 0 /\ \E k \in 1..(d - 1) : name[k] # "."
        THEN SubSeq(name, d, Len(name))
        ELSE <<>>

----------------------------------------------------------------------------
(* Configuration tables, restricted to the names the model's trees use. *)

DEFAULT_IGNORED_DIRS == { <<".", "h", "g">>, <<"o", "u", "t">>, <<"e", "n", "v">> }

ALWAYS_SKIP_EXTS == { <<".", "p", "n", "g">>, <<".", "z", "i", "p">>, <<".", "p", "d", "f">> }

PREFER_TEXT_EXTS == { <<".", "p", "y">>, <<".", "m", "d">> }

DOCX_EXTS == { <<".", "d", "o", "c", "x">> }

PDF_EXTS == { <<".", "p", "d", "f">> }

----------------------------------------------------------------------------
(* is_probably_binary *)

text_whitelist == {9, 10, 13, 12, 8}

\* the loop of is_probably_binary over sample[i..]: the count of suspicious bytes,
\* or -1 when the loop returns True on a zero byte
RECURSIVE SuspiciousFrom(_, _)
SuspiciousFrom(s, i) ==
    IF i > Len(s) THEN 0
    ELSE IF s[i] = 0 THEN -1
    ELSE LET rest == SuspiciousFrom(s, i + 1)
         IN  IF rest = -1 THEN -1
             ELSE IF 32 <= s[i] /\ s[i] <= 126 THEN rest
             ELSE IF s[i] \in text_whitelist THEN rest
             ELSE IF 127 <= s[i] /\ s[i] <= 159 THEN rest + 1
             ELSE rest + 1

\* suspicious / max(1, len(sample)) > 0.30, in integers: both sides are ratios of
\* small integers, and the double nearest 3/10 is the literal 0.30 itself
\* variant: the threshold test with >= in place of >
DensityExceedsOrEqual(suspicious, n) == suspicious * 10 >= 3 * (IF n < 1 THEN 1 ELSE n)

DensityExceeds(suspicious, n) == suspicious * 10 > 3 * (IF n < 1 THEN 1 ELSE n)

is_probably_binary(s) ==
    IF Len(s) = 0 THEN FALSE
    ELSE IF \E i \in 1..Len(s) : s[i] = 0 THEN TRUE
    ELSE LET suspicious == SuspiciousFrom(s, 1)
         IN  IF suspicious = -1 THEN TRUE
             ELSE DensityExceeds(suspicious, Len(s))

----------------------------------------------------------------------------
(* What the filesystem and the extraction libraries answer during one call *)
(* of process_file.  The file is shorter than the head read, so the head   *)
(* sample is the whole content.                                            *)

\* fb.read(4096)
HEAD_BYTES == 4096

SmallText == <<65>>
CrLfText == <<65, 13, 10, 66>>
ZipBytes == <<80, 75, 0>>
Latin1Text == <<233, 65>>
EmptyFile == <<>>

Contents == {SmallText, CrLfText, ZipBytes, Latin1Text, EmptyFile}

\* the text python-docx / PyMuPDF return when they succeed (code points)
DocxText == <<68, 13>>
PdfText == <<80>>

\* the answers when nothing is asked
DefaultEnv ==
    [stat |-> "ok", content |-> SmallText, headOpen |-> TRUE, textOpen |-> TRUE,
     docx |-> "ok", pdf |-> "ok", gc |-> TRUE]

\* every answer the model draws: stat may fail, the file may be unreadable at the
\* head read or later, the extractors may raise, and a handle that was not closed
\* may or may not have been reclaimed by the runtime when the next path starts
FaultyEnv ==
    [stat |-> {"ok", "fail"}, content |-> Contents, headOpen |-> BOOLEAN,
     textOpen |-> BOOLEAN, docx |-> {"ok", "fail"},
     pdf |-> {"ok", "openfail", "pagefail"}, gc |-> BOOLEAN]

\* a filesystem with readable one-byte text files and no failure
NominalEnv ==
    [stat |-> {"ok"}, content |-> {SmallText}, headOpen |-> {TRUE},
     textOpen |-> {TRUE}, docx |-> {"ok"}, pdf |-> {"ok"}, gc |-> {TRUE}]

----------------------------------------------------------------------------
(* Text decoding *)

Encodings == <<"utf-8", "utf-8-sig", "latin-1", "cp1252">>

\* codec.decode(bytes, errors='strict') succeeds.  The model's bytes >= 128 are
\* never followed by a continuation byte, so UTF-8 accepts exactly pure ASCII;
\* latin-1 accepts every byte; cp1252 has five undefined bytes.
Decodes(enc, bytes) ==
    CASE enc = "utf-8" -> \A i \in 1..Len(bytes) : bytes[i] < 128
      [] enc = "utf-8-sig" -> \A i \in 1..Len(bytes) : bytes[i] < 128
      [] enc = "latin-1" -> TRUE
      [] OTHER -> \A i \in 1..Len(bytes) : bytes[i] \notin {129, 141, 143, 144, 157}

\* errors='replace': U+FFFD for what UTF-8 cannot decode
DecodeReplace(bytes) == [i \in 1..Len(bytes) |-> IF bytes[i] < 128 THEN bytes[i] ELSE 65533]

\* the result of one step of process_file: the optional text, the failures that
\* were caught, the handles left open, the answers of the environment it used,
\* and whether an exception leaves the step (none of the steps below lets one out:
\* every failing call sits in a try block)
R(val, ev, open, used) ==
    [val |-> val, ev |-> ev, open |-> open, used |-> used, raised |-> FALSE]

Raise(ev, open, used) ==
    [val |-> None, ev |-> ev, open |-> open, used |-> used, raised |-> TRUE]

RECURSIVE ReadFrom(_, _)
ReadFrom(e, i) ==
    IF i > Len(Encodings)
    THEN IF e.textOpen THEN Some(DecodeReplace(e.content)) ELSE None
    ELSE IF e.textOpen /\ Decodes(Encodings[i], e.content)
         THEN Some(e.content)
         ELSE ReadFrom(e, i + 1)

read_text_file(e) ==
    LET text == ReadFrom(e, 1)
    IN  R(text, IF text = None THEN {"text_read"} ELSE {}, {}, {"textOpen", "content"})

extract_docx_text(h, e) ==
    IF ~h.docx THEN R(None, {}, {}, {})
    ELSE IF e.docx = "ok" THEN R(Some(DocxText), {}, {}, {"docx"})
    ELSE R(None, {"docx"}, {}, {"docx"})

\* doc.close() is reached only when every page.get_text() returned: when a page
\* raises, the document stays open until the runtime reclaims it
extract_pdf_text(h, e) ==
    IF ~h.pdf THEN R(None, {}, {}, {})
    ELSE IF e.pdf = "ok" THEN R(Some(PdfText), {}, {}, {"pdf"})
    ELSE IF e.pdf = "openfail" THEN R(None, {"pdf_open"}, {}, {"pdf"})
    ELSE R(None, {"pdf_page"}, IF e.gc THEN {} ELSE {"pdf"}, {"pdf", "gc"})

\* content.replace('\r\n', '\n').replace('\r', '\n')
RECURSIVE NormalizeNewlines(_)
NormalizeNewlines(t) ==
    IF t = <<>> THEN <<>>
    ELSE IF t[1] = 13 /\ Len(t) >= 2 /\ t[2] = 10
         THEN <<10>> \o NormalizeNewlines(SubSeq(t, 3, Len(t)))
    ELSE IF t[1] = 13 THEN <<10>> \o NormalizeNewlines(Tail(t))
    ELSE <<t[1]>> \o NormalizeNewlines(Tail(t))

\* EXT_TO_LANG.get(ext.lower(), "")
fence_for_ext(ext) ==
    CASE ext = <<".", "p", "y">> -> "python"
      [] ext = <<".", "m", "d">> -> "markdown"
      [] OTHER -> ""

\* os.path.relpath(path, root): the path below the root directory
safe_relpath(path) == Tail(path)

----------------------------------------------------------------------------
(* process_file *)

ExtOf(path) == Lower(splitext_ext(path[Len(path)]))

\* variant: the PDF carve-out without the test of _HAS_PYMUPDF
SkipByExt_RequestedOnly(ext, a, h) ==
    ext \in ALWAYS_SKIP_EXTS /\ ~(ext \in PDF_EXTS /\ a.pdf)

SkipByExt(ext, a, h) ==
    ext \in ALWAYS_SKIP_EXTS /\ ~(ext \in PDF_EXTS /\ a.pdf /\ h.pdf)

\* variant: the deny-list is read only when there is no allow-list
SkipByLists_AllowWins(ext, a) ==
    IF a.only_ext # {} THEN ext \notin a.only_ext ELSE ext \in a.skip_ext

SkipByLists(ext, a) ==
    (a.only_ext # {} /\ ext \notin a.only_ext) \/ (a.skip_ext # {} /\ ext \in a.skip_ext)

\* os.path.getsize, -1 when it raises
getsize(e) == IF e.stat = "ok" THEN Len(e.content) ELSE -1

SkipBySize(size, a) == a.max_file_size # 0 /\ size > a.max_file_size

\* variant: the head read outside a try block
TextPath_NoExcept(ext, e) ==
    IF ~e.headOpen THEN Raise({"head_open"}, {}, {"headOpen"})
    ELSE IF ext \notin PREFER_TEXT_EXTS /\ is_probably_binary(e.content)
         THEN R(None, {}, {}, {"headOpen", "content"})
         ELSE LET t == read_text_file(e)
              IN  R(t.val, t.ev, t.open, t.used \cup {"headOpen", "content"})

\* variant: the sniff applied to prefer-text extensions too
TextPath_AlwaysSniff(ext, e) ==
    IF ~e.headOpen THEN R(None, {"head_open"}, {}, {"headOpen"})
    ELSE IF is_probably_binary(e.content)
         THEN R(None, {}, {}, {"headOpen", "content"})
         ELSE LET t == read_text_file(e)
              IN  R(t.val, t.ev, t.open, t.used \cup {"headOpen", "content"})

\* variant: no sniff at all
TextPath_NeverSniff(ext, e) ==
    IF ~e.headOpen THEN R(None, {"head_open"}, {}, {"headOpen"})
    ELSE LET t == read_text_file(e)
         IN  R(t.val, t.ev, t.open, t.used \cup {"headOpen", "content"})

\* lines 254-265: the head read, the sniff, the text read
TextPath(ext, e) ==
    IF ~e.headOpen THEN R(None, {"head_open"}, {}, {"headOpen"})
    ELSE LET head == SubSeq(e.content, 1, IF Len(e.content) < HEAD_BYTES
                                          THEN Len(e.content) ELSE HEAD_BYTES)
         IN  IF ext \notin PREFER_TEXT_EXTS /\ is_probably_binary(head)
             THEN R(None, {}, {}, {"headOpen", "content"})
             ELSE LET t == read_text_file(e)
                  IN  R(t.val, t.ev, t.open, t.used \cup {"headOpen", "content"})

\* the calls of the helpers are not wrapped: an exception leaving a helper
\* leaves process_file
process_file(path, a, h, e) ==
    LET ext == ExtOf(path)
    IN  IF SkipByExt(ext, a, h) THEN R(None, {}, {}, {})
        ELSE IF SkipByLists(ext, a) THEN R(None, {}, {}, {})
        ELSE
        LET size == getsize(e)
            sev == IF size = -1 THEN {"stat"} ELSE {}
            sus == {"stat", "content"}
        IN  IF SkipBySize(size, a) THEN R(None, sev, {}, sus)
            ELSE
            LET dx == IF ext \in DOCX_EXTS /\ a.docx
                      THEN extract_docx_text(h, e) ELSE R(None, {}, {}, {})
                px == IF ~dx.raised /\ dx.val = None /\ ext \in PDF_EXTS /\ a.pdf
                      THEN extract_pdf_text(h, e) ELSE R(None, {}, {}, {})
                c2 == IF dx.val # None THEN dx.val ELSE px.val
                tx == IF ~dx.raised /\ ~px.raised /\ c2 = None
                      THEN TextPath(ext, e) ELSE R(None, {}, {}, {})
                content == IF c2 # None THEN c2 ELSE tx.val
                ev == sev \cup dx.ev \cup px.ev \cup tx.ev
                open == dx.open \cup px.open \cup tx.open
                used == sus \cup dx.used \cup px.used \cup tx.used
            IN  IF dx.raised \/ px.raised \/ tx.raised THEN Raise(ev, open, used)
                ELSE IF content = None THEN R(None, ev, open, used)
                ELSE R(Some([rel |-> safe_relpath(path), size |-> size,
                             lang |-> fence_for_ext(ext),
                             content |-> NormalizeNewlines(content[1])]),
                       ev, open, used)

\* the answers drawn for one call: those process_file asks for vary over the
\* class cls, the others stay at their defaults
EnvFields == {"stat", "content", "headOpen", "textOpen", "docx", "pdf", "gc"}

Envs(cls, path, a, h) ==
    LET ext == ExtOf(path)
        pre == SkipByExt(ext, a, h) \/ SkipByLists(ext, a)
        D(f) == {DefaultEnv[f]}
        all == [stat : IF pre THEN D("stat") ELSE cls.stat,
                content : IF pre THEN D("content") ELSE cls.content,
                headOpen : IF pre THEN D("headOpen") ELSE cls.headOpen,
                textOpen : IF pre THEN D("textOpen") ELSE cls.textOpen,
                docx : IF ~pre /\ ext \in DOCX_EXTS /\ a.docx /\ h.docx
                       THEN cls.docx ELSE D("docx"),
                pdf : IF ~pre /\ ext \in PDF_EXTS /\ a.pdf /\ h.pdf
                      THEN cls.pdf ELSE D("pdf"),
                gc : IF ~pre /\ ext \in PDF_EXTS /\ a.pdf /\ h.pdf
                     THEN cls.gc ELSE D("gc")]
    IN  {e \in all : \A f \in EnvFields \ process_file(path, a, h, e).used :
                         e[f] = DefaultEnv[f]}


----------------------------------------------------------------------------
(* iter_files *)

\* variant: the ignore set is not consulted
KeepDir_HiddenOnly(d, include_hidden, ignored_dirs) ==
    ~(~include_hidden /\ StartsWithDot(d))

\* lines 139-144: a child directory is kept unless it is hidden (and hidden
\* entries are not included) or its name is in the ignore set
KeepDir(d, include_hidden, ignored_dirs) ==
    ~(~include_hidden /\ StartsWithDot(d)) /\ d \notin ignored_dirs

\* lines 147-149
KeepFile(fname, include_hidden) == ~(~include_hidden /\ StartsWithDot(fname))

\* the ids of fs.dirs (resp. fs.files) that lie directly in directory d, in
\* listing order
Ids(n) == [i \in 1..n |-> i]

InDir(d, i) == fs.dirs[i].parent = d

FileInDir(d, i) == fs.files[i].dir = d

ChildDirs(d) == SelectSeq(Ids(Len(fs.dirs)), LAMBDA i : InDir(d, i))

ChildFiles(d) == SelectSeq(Ids(Len(fs.files)), LAMBDA i : FileInDir(d, i))

\* os.path.join(dirpath, name), as the tuple of components from the root down
RECURSIVE DirPath(_)
DirPath(d) ==
    IF d = 0 THEN <<fs.root>>
    ELSE Append(DirPath(fs.dirs[d].parent), fs.dirs[d].name)

FilePath(i) == Append(DirPath(fs.files[i].dir), fs.files[i].name)

----------------------------------------------------------------------------
(* main *)

\* lines 324-327: a leading dot is added when missing, then lower()
NormalizeExt(e) == Lower(IF StartsWithDot(e) THEN e ELSE <<".">> \o e)

ToSet(s) == {s[i] : i \in 1..Len(s)}

NormalizeArgs(a) ==
    [a EXCEPT
        !.ignore_dirs = ToSet(a.ignore_dir) \cup
                        (IF a.no_default_ignores THEN {} ELSE DEFAULT_IGNORED_DIRS),
        !.only_ext = {NormalizeExt(x) : x \in a.only_ext},
        !.skip_ext = {NormalizeExt(x) : x \in a.skip_ext},
        !.max_file_size = IF a.max_file_size <= 0 THEN 0 ELSE a.max_file_size]

\* the record of a call of process_file that has not been made
NoCall ==
    [called |-> FALSE, path |-> <<>>, ext |-> <<>>, env |-> DefaultEnv, ev |-> {},
     ret |-> None]

\* variant: the increment left out
CountTotal_Forgotten(total) == total

\* line 338
CountTotal(total) == total + 1

\* lines 340, 344
CountIncluded(included, chunk) == IF chunk # None THEN included + 1 ELSE included

\* variant: the chunk put in front of the stream
WriteChunk_Prepend(stream, chunk) ==
    IF chunk # None THEN <<chunk[1].rel>> \o stream ELSE stream

\* lines 340-341: the stream after the chunk of this iteration, if any
WriteChunk(stream, chunk) ==
    IF chunk # None THEN Append(stream, chunk[1].rel) ELSE stream

\* lines 311-336: the root check, the normalisation of the arguments, the header
Start ==
    /\ pc = "start"
    /\ IF ~fs.isdir
       THEN /\ pc' = "fail"
            /\ exitcode' = 2
            /\ UNCHANGED <<args, stack>>
       ELSE /\ pc' = "loop"
            /\ args' = NormalizeArgs(args)
            /\ stack' = <<0>>
            /\ exitcode' = -1
    /\ UNCHANGED <<fs, has, pending, count_total, count_included, out, summary,
                   yielded, handles, last, sample, verdict>>

\* lines 136-150: os.walk hands over the next directory; its child directories
\* are filtered in place and the walk descends into the kept ones, in order,
\* after the files of this directory
WalkDir ==
    /\ pc = "loop"
    /\ pending = <<>>
    /\ stack # <<>>
    /\ LET d == Head(stack)
           keep_dirs == SelectSeq(ChildDirs(d),
                            LAMBDA i : KeepDir(fs.dirs[i].name, args.include_hidden,
                                               args.ignore_dirs))
           files == SelectSeq(ChildFiles(d),
                        LAMBDA i : KeepFile(fs.files[i].name, args.include_hidden))
       IN  /\ stack' = keep_dirs \o Tail(stack)
           /\ pending' = [k \in 1..Len(files) |-> FilePath(files[k])]
    /\ UNCHANGED <<fs, has, args, pc, count_total, count_included, out, summary,
                   yielded, handles, last, exitcode, sample, verdict>>

\* lines 150, 337-338: iter_files yields the next path of the current directory
\* and main counts it
NextPath ==
    /\ pc = "loop"
    /\ pending # <<>>
    /\ yielded' = Append(yielded, Head(pending))
    /\ pending' = Tail(pending)
    /\ count_total' = CountTotal(count_total)
    /\ last' = [NoCall EXCEPT !.path = Head(pending), !.ext = ExtOf(Head(pending))]
    /\ pc' = "body"
    /\ UNCHANGED <<fs, has, args, stack, count_included, out, summary, handles,
                   exitcode, sample, verdict>>

\* lines 339-344: process_file on the yielded path, then the write of its chunk.
\* The call is not wrapped either: an exception leaving process_file ends main
\* with a traceback and exit status 1.
Body(cls) ==
    /\ pc = "body"
    /\ \E e \in Envs(cls, last.path, args, has) :
           LET r == process_file(last.path, args, has, e)
           IN  /\ count_included' = IF r.raised THEN count_included
                                    ELSE CountIncluded(count_included, r.val)
               /\ out' = IF r.raised THEN out ELSE WriteChunk(out, r.val)
               /\ handles' = handles \cup
                                 {[path |-> last.path, kind |-> k] : k \in r.open}
               /\ last' = [last EXCEPT !.called = TRUE, !.env = e, !.ev = r.ev,
                                       !.ret = r.val]
               /\ pc' = IF r.raised THEN "crash" ELSE "loop"
               /\ exitcode' = IF r.raised THEN 1 ELSE exitcode
    /\ UNCHANGED <<fs, has, args, stack, pending, count_total, summary, yielded,
                   sample, verdict>>

\* lines 346-352: the enumeration is exhausted; the trailer, then return 0
Finish ==
    /\ pc = "loop"
    /\ pending = <<>>
    /\ stack = <<>>
    /\ summary' = <<count_total, count_included>>
    /\ pc' = "done"
    /\ exitcode' = 0
    /\ UNCHANGED <<fs, has, args, stack, pending, count_total, count_included, out,
                   yielded, handles, last, sample, verdict>>

\* one call of is_probably_binary on the sample
Sniff ==
    /\ pc = "idle"
    /\ verdict = None
    /\ verdict' = Some(is_probably_binary(sample))
    /\ UNCHANGED <<pipeVars, sample>>

----------------------------------------------------------------------------
(* Initial states *)

N_repo == <<"r", "e", "p", "o">>
N_src == <<"s", "r", "c">>
N_out == <<"o", "u", "t">>
N_hg == <<".", "h", "g">>

F_py == <<"a", ".", "p", "y">>
F_pdf == <<"c", ".", "p", "d", "f">>
F_docx == <<"d", ".", "d", "o", "c", "x">>
F_PNG == <<"E", ".", "P", "N", "G">>
F_dat == <<"f", ".", "d", "a", "t">>
F_noext == <<"n">>
F_dotenv == <<".", "e", "n", "v">>

\* the file names of the pipeline trees, in listing order
ProcNames == <<F_py, F_pdf, F_docx, F_PNG, F_dat, F_noext>>

DirNames == {N_src, N_out, N_hg}

RootNames == {N_repo, N_out}

\* the arguments argparse hands to main; the lists --only-ext and --skip-ext are
\* held as the sets of their items, which is all that lines 324-327 read of them
RawArgs(walk, proc) ==
    [include_hidden |-> walk.include_hidden,
     no_default_ignores |-> walk.no_default_ignores,
     ignore_dir |-> walk.ignore_dir,
     ignore_dirs |-> {},
     max_file_size |-> proc.max_file_size,
     pdf |-> proc.pdf, docx |-> proc.docx,
     only_ext |-> proc.only_ext, skip_ext |-> proc.skip_ext]

WalkArgs ==
    [include_hidden : BOOLEAN, no_default_ignores : BOOLEAN,
     ignore_dir : {<<>>, <<N_src>>}]

DefaultWalkArgs ==
    [include_hidden |-> FALSE, no_default_ignores |-> FALSE, ignore_dir |-> <<>>]

ProcArgs ==
    [max_file_size : {-1, 0, 2}, pdf : BOOLEAN, docx : BOOLEAN,
     only_ext : {{}, {<<"P", "Y">>, <<".", "p", "d", "f">>}},
     skip_ext : {{}, {<<".", "P", "y">>}}]

DefaultProcArgs ==
    [max_file_size |-> 0, pdf |-> FALSE, docx |-> FALSE, only_ext |-> {},
     skip_ext |-> {}]

\* the trees of the pipeline specification: a root with one subdirectory and
\* MaxFiles files of different names, alternately in the root and below it
ProcTrees ==
    LET picks == {t \in [1..MaxFiles -> 1..Len(ProcNames)] :
                      \A i \in 1..(MaxFiles - 1) : t[i] < t[i + 1]}
    IN  {[root |-> N_repo, isdir |-> TRUE,
          dirs |-> <<[parent |-> 0, name |-> N_src]>>,
          files |-> [i \in 1..MaxFiles |->
                        [dir |-> IF i % 2 = 1 THEN 0 ELSE 1, name |-> ProcNames[t[i]]]]]
         : t \in picks}

NotADirectory == [root |-> N_repo, isdir |-> FALSE, dirs |-> <<>>, files |-> <<>>]

\* the trees of the walk specification: MaxDirs directories below a root, each
\* directory holding a.py and possibly the hidden file .env
RECURSIVE WalkFiles(_, _)
WalkFiles(hid, d) ==
    IF d > MaxDirs THEN <<>>
    ELSE (IF hid[d] THEN <<[dir |-> d, name |-> F_dotenv]>> ELSE <<>>)
         \o <<[dir |-> d, name |-> F_py]>> \o WalkFiles(hid, d + 1)

WalkTrees ==
    LET dirsets == {ds \in [1..MaxDirs -> [parent : 0..(MaxDirs - 1), name : DirNames]] :
                       /\ \A i \in 1..MaxDirs : ds[i].parent < i
                       /\ \A i, j \in 1..MaxDirs :
                              i # j /\ ds[i].parent = ds[j].parent
                                  => ds[i].name # ds[j].name}
    IN  {[root |-> r, isdir |-> TRUE, dirs |-> ds, files |-> WalkFiles(hid, 0)]
         : r \in RootNames, ds \in dirsets, hid \in [0..MaxDirs -> BOOLEAN]}

InitPipe(trees, walkargs, procargs, caps) ==
    /\ fs \in trees
    /\ has \in caps
    /\ \E w \in walkargs, p \in procargs : args = RawArgs(w, p)
    /\ pc = "start"
    /\ stack = <<>>
    /\ pending = <<>>
    /\ count_total = 0
    /\ count_included = 0
    /\ out = <<>>
    /\ summary = <<>>
    /\ yielded = <<>>
    /\ handles = {}
    /\ last = NoCall
    /\ exitcode = -1
    /\ sample = <<>>
    /\ verdict = None

Init ==
    \/ InitPipe(ProcTrees, {DefaultWalkArgs}, ProcArgs, [pdf : BOOLEAN, docx : BOOLEAN])
    \/ InitPipe({NotADirectory}, {DefaultWalkArgs}, {DefaultProcArgs},
                {[pdf |-> FALSE, docx |-> FALSE]})

Next ==
    \/ Start
    \/ WalkDir
    \/ NextPath
    \/ Body(FaultyEnv)
    \/ Finish

Spec == Init /\ [][Next]_vars

InitWalk ==
    InitPipe(WalkTrees, WalkArgs, {DefaultProcArgs}, {[pdf |-> FALSE, docx |-> FALSE]})

NextWalk ==
    \/ Start
    \/ WalkDir
    \/ NextPath
    \/ Body(NominalEnv)
    \/ Finish

SpecWalk == InitWalk /\ [][NextWalk]_vars

SniffBytes == {0, 8, 9, 10, 11, 12, 13, 31, 32, 65, 126, 127, 159, 160, 255}

Samples ==
    UNION {[1..k -> SniffBytes] : k \in 0..MaxSampleLen}
    \cup {[i \in 1..n |-> IF i <= k THEN 200 ELSE 65] :
              n \in 1..MaxDensityLen, k \in 0..MaxDensityLen}

InitSniff ==
    /\ fs = NotADirectory
    /\ has = [pdf |-> FALSE, docx |-> FALSE]
    /\ args = RawArgs(DefaultWalkArgs, DefaultProcArgs)
    /\ pc = "idle"
    /\ stack = <<>>
    /\ pending = <<>>
    /\ count_total = 0
    /\ count_included = 0
    /\ out = <<>>
    /\ summary = <<>>
    /\ yielded = <<>>
    /\ handles = {}
    /\ last = NoCall
    /\ exitcode = -1
    /\ sample \in Samples
    /\ verdict = None

NextSniff == Sniff

SpecSniff == InitSniff /\ [][NextSniff]_vars

----------------------------------------------------------------------------
(* Properties *)

Rel(path) == safe_relpath(path)

Rels(paths) == [k \in 1..Len(paths) |-> Rel(paths[k])]

RECURSIVE IsSubseq(_, _)
IsSubseq(a, b) ==
    IF a = <<>> THEN TRUE
    ELSE IF b = <<>> THEN FALSE
    ELSE IF Head(a) = Head(b) THEN IsSubseq(Tail(a), Tail(b))
    ELSE IsSubseq(a, Tail(b))

NoDup(q) == \A i, j \in 1..Len(q) : i # j => q[i] # q[j]

Running == pc \in {"loop", "body", "done"}

\* the directories on the way from directory d up to the root, the root (0) included
RECURSIVE Ancestors(_)
Ancestors(d) == IF d = 0 THEN {0} ELSE {d} \cup Ancestors(fs.dirs[d].parent)

DirName(d) == IF d = 0 THEN fs.root ELSE fs.dirs[d].name

\* the directory's name is in the effective ignore set, or it is hidden while
\* hidden inclusion is off
NamePruned(d) ==
    DirName(d) \in args.ignore_dirs \/ (StartsWithDot(DirName(d)) /\ ~args.include_hidden)

\* the files the enumeration has to yield: not hidden (unless included) and below
\* no pruned directory
Enumerable(i) ==
    /\ ~(StartsWithDot(fs.files[i].name) /\ ~args.include_hidden)
    /\ \A d \in Ancestors(fs.files[i].dir) \ {0} : ~NamePruned(d)

FileIds == 1..Len(fs.files)

Excluded == last.ret = None /\ Rel(last.path) \notin ToSet(out)

Included == last.ret # None /\ out # <<>> /\ out[Len(out)] = Rel(last.path)

UnderCeiling == args.max_file_size = 0 \/ Len(last.env.content) <= args.max_file_size

ListExcluded ==
    (args.only_ext # {} /\ last.ext \notin args.only_ext) \/ last.ext \in args.skip_ext

\* C1: in every state of a run count_included <= count_total and count_total is
\* the number of paths yielded so far; when the enumeration is exhausted the
\* summary carries exactly these counters; neither counter ever decreases.
C1_Counters ==
    /\ [](/\ count_included <= count_total
          /\ count_total = Len(yielded)
          /\ count_included = Len(out)
          /\ (pc = "done" => /\ pending = <<>> /\ stack = <<>>
                             /\ summary = <<Len(yielded), count_included>>))
    /\ [][count_total' >= count_total /\ count_included' >= count_included]_vars

C1_Witness == pc = "done" /\ count_total = 2 /\ count_included = 1

\* C2: every yielded path contributes at most one chunk, the output only grows
\* by appending, and the chunks are in enumeration order: the chunk paths are a
\* subsequence of the yielded paths, none repeated.
C2_OutputOrder ==
    /\ [](Running => /\ IsSubseq(out, Rels(yielded))
                     /\ NoDup(out)
                     /\ NoDup(yielded))
    /\ [][\/ out' = out
          \/ /\ pc = "body"
             /\ out' = Append(out, Rel(last.path))
             /\ Rel(last.path) \notin ToSet(out)]_vars

C2_Witness ==
    /\ pc = "done"
    /\ Len(yielded) = 2
    /\ out = <<Rel(yielded[2])>>

\* C3 as stated: whenever a step of process_file failed (size lookup, extractor,
\* head read, text read), the path is not included and no chunk is written.
C3_FailureExcludes == (last.called /\ last.ev # {}) => Excluded

\* C3 as amended: a failure never stops the run (no exception leaves the loop,
\* the run goes on from the state after the failure, every path to enumerate is
\* processed, the summary is written, exit code 0) and the path is counted; it is
\* excluded when the head read or the text read failed, while a failed size
\* lookup or extractor alone lets the text path decide.
C3_FailureAbsorbed ==
    /\ (last.called /\ last.ev \cap {"head_open", "text_read"} # {}) => Excluded
    /\ (last.called /\ last.ev # {}) =>
           /\ last.path = yielded[Len(yielded)]
           /\ count_total = Len(yielded)
           /\ count_included = Len(out)
           /\ (last.ret # None =>
                   /\ Included
                   /\ last.ev \subseteq {"stat", "docx", "pdf_open", "pdf_page"})
           /\ (pc # "done" => pc = "loop" /\ ENABLED Next)
    /\ pc # "crash"
    /\ (pc = "done" =>
           /\ exitcode = 0
           /\ summary = <<count_total, count_included>>
           /\ \A i \in FileIds : Enumerable(i) => FilePath(i) \in ToSet(yielded))

C3_Witness ==
    /\ pc = "done"
    /\ exitcode = 0
    /\ "head_open" \in last.ev
    /\ count_total = 2
    /\ count_included = 1

\* C4: is_probably_binary returns true exactly when the sample holds a zero byte
\* or more than 30% of its bytes are neither printable ASCII nor tab, newline,
\* carriage return, form feed, backspace; so the empty sample and a sample of
\* clean bytes only are not binary, and a sample with more than 30% of its bytes
\* in 0x7F..0xFF is binary.
CleanByte(b) == (32 <= b /\ b <= 126) \/ b \in {9, 10, 13, 12, 8}

Unclean(s) == {i \in 1..Len(s) : ~CleanByte(s[i])}

C4_Sniffer ==
    verdict # None =>
        /\ verdict[1] = (\/ \E i \in 1..Len(sample) : sample[i] = 0
                         \/ Cardinality(Unclean(sample)) * 100 > 30 * Len(sample))
        /\ (sample = <<>> => ~verdict[1])
        /\ (Unclean(sample) = {} => ~verdict[1])
        /\ (Cardinality({i \in 1..Len(sample) : 127 <= sample[i] /\ sample[i] <= 255}) * 100
                > 30 * Len(sample) => verdict[1])

C4_Witness ==
    /\ verdict = Some(FALSE)
    /\ Len(sample) = 10
    /\ Cardinality(Unclean(sample)) = 3

\* C5 as stated: a file with a prefer-text extension, under the size ceiling and
\* not excluded by the allow/deny lists, is always included.
C5_PreferTextIncluded ==
    (last.called /\ last.ext \in PREFER_TEXT_EXTS /\ ~ListExcluded /\ UnderCeiling)
        => Included

\* C5 as amended: such a file is included whenever it can be opened for the head
\* read and for the text read, whatever its bytes are.
C5_PreferTextIncludedIfReadable ==
    (/\ last.called /\ last.ext \in PREFER_TEXT_EXTS /\ ~ListExcluded /\ UnderCeiling
     /\ last.env.headOpen /\ last.env.textOpen)
        => Included /\ count_included = Len(out)

C5_Witness ==
    /\ last.called
    /\ last.ext = <<".", "p", "y">>
    /\ last.env.content = Latin1Text
    /\ args.max_file_size = 2
    /\ Included

C7_AlwaysSkip ==
    (/\ last.called
     /\ Lower(splitext_ext(last.path[Len(last.path)])) \in ALWAYS_SKIP_EXTS
     /\ ~(last.ext = <<".", "p", "d", "f">> /\ args.pdf /\ has.pdf))
        => Excluded /\ count_included = Len(out)

C7_Witness ==
    /\ last.called
    /\ last.path[Len(last.path)] = F_PNG
    /\ Excluded
    /\ count_total = 2
    /\ count_included = 1

\* C8: a file is excluded whenever a non-empty allow-list does not contain its
\* extension or the deny-list contains it, in particular when the extension is
\* in both lists; an empty allow-list excludes nothing.
C8_AllowDeny ==
    last.called =>
        /\ (last.ext \in args.skip_ext => Excluded)
        /\ (args.only_ext # {} /\ last.ext \notin args.only_ext => Excluded)
        /\ (/\ args.only_ext = {} /\ last.ext \notin args.skip_ext
            /\ last.ext \in PREFER_TEXT_EXTS /\ UnderCeiling
            /\ last.env.headOpen /\ last.env.textOpen) => Included

C8_Witness ==
    /\ last.called
    /\ last.ext = <<".", "p", "y">>
    /\ last.ext \in args.only_ext
    /\ last.ext \in args.skip_ext
    /\ Excluded

\* C9 as stated: no file below a directory whose name is ignored, or hidden
\* while hidden inclusion is off, is ever yielded, written or counted; the
\* directory may be any directory of the tree.
C9_NothingBelowPruned ==
    Running =>
        \A i \in FileIds :
            (\E d \in Ancestors(fs.files[i].dir) : NamePruned(d))
                => FilePath(i) \notin ToSet(yielded)

\* C9 as amended: the same for every directory strictly below the scan root; the
\* root itself is walked whatever its name is.
C9_NothingBelowPrunedChild ==
    Running =>
        /\ count_total = Len(yielded)
        /\ \A i \in FileIds :
               (\E d \in Ancestors(fs.files[i].dir) \ {0} : NamePruned(d))
                   => /\ FilePath(i) \notin ToSet(yielded)
                      /\ Rel(FilePath(i)) \notin ToSet(out)

C9_Witness ==
    /\ pc = "done"
    /\ count_total > 0
    /\ \E i \in FileIds :
           /\ fs.files[i].dir # 0
           /\ ~NamePruned(fs.files[i].dir)
           /\ fs.dirs[fs.files[i].dir].parent # 0
           /\ NamePruned(fs.dirs[fs.files[i].dir].parent)
           /\ ~StartsWithDot(fs.files[i].name)

\* C10: no handle on an input file is open when the driver starts the next
\* path, or when the run ends.
C10_HandlesClosed == pc \in {"loop", "done"} => handles = {}

============================================================================
